---- MODULE Spec2Model ----
(***************************************************************************)
(* Conway's Game of Life on a toroidal grid (src/src/lib.rs): the Universe *)
(* (grid, neighbour count, tick), the pointer handlers that paint cells,   *)
(* the play/pause button and the requestAnimationFrame loop.               *)
(***************************************************************************)
EXTENDS Integers, Sequences, FiniteSets, TLC

(***************************************************************************)
(* Bounds of the model.  Universe::new builds a 150 x 150 grid; the model  *)
(* runs the same code on a GridW x GridH grid.                             *)
(***************************************************************************)
GridW == 2
GridH == 2
\* largest width / height of the grids the pure functions are applied to
MaxW == 3
MaxH == 3
\* the frame counter is an unbounded i32; frames are modelled up to here
MaxFrames == 6

(***************************************************************************)
(* Program constants.                                                      *)
(***************************************************************************)
cell_size == 8
Throttle == 5
SecondaryButton == 2

VARIABLES
    width,        \* Universe.width
    height,       \* Universe.height
    cells,        \* Universe.cells, a function on 0 .. width*height-1
    drag_mode,    \* Option<Cell>: "None", "Dead" or "Alive"
    running,      \* the run flag
    label,        \* text of the play/pause button
    frame_count,  \* frame counter captured by the animation closure
    pending,      \* number of animation callbacks registered with the host
    failed,       \* a request_animation_frame call has returned Err
    rendered,     \* what the last handler drew on the canvas, "None" if nothing
    capture,      \* the canvas holds the capture of the pointer
    last,         \* what the most recent handler did
    input,        \* the grid a pure function was applied to
    probe,        \* the arguments and result of live_neighbour_count
    hist          \* history of the frames and of the pointer events

vars == <<width, height, cells, drag_mode, running, label, frame_count,
          pending, failed, rendered, capture, last, input, probe, hist>>

(***************************************************************************)
(* Cell and Universe.                                                      *)
(***************************************************************************)
Cell == {"Dead", "Alive"}

\* `cell as u8` under #[repr(u8)]
AsU8(c) == IF c = "Alive" THEN 1 ELSE 0

\* f64 -> u32 `as` cast of an integral value: it saturates, a negative value
\* becomes 0 (the values of the model stay far below u32::MAX, where it
\* saturates too)
AsU32(v) == IF v < 0 THEN 0 ELSE v

Grids(w, h) == [0 .. (w * h - 1) -> Cell]

AllDead(w, h) == [i \in 0 .. (w * h - 1) |-> "Dead"]

get_index(w, row, column) == row * w + column

\* the loops without the `continue`: the cell counts itself
NeighbourTermCountsSelf(w, h, cs, row, column, k) ==
    LET delta_row == <<h - 1, 0, 1>>[(k \div 3) + 1]
        delta_col == <<w - 1, 0, 1>>[(k % 3) + 1]
    IN  AsU8(cs[get_index(w, (row + delta_row) % h, (column + delta_col) % w)])

\* the k-th (k = 0 .. 8) iteration of the two nested loops over
\* [height - 1, 0, 1] x [width - 1, 0, 1]
NeighbourTerm(w, h, cs, row, column, k) ==
    LET delta_row == <<h - 1, 0, 1>>[(k \div 3) + 1]
        delta_col == <<w - 1, 0, 1>>[(k % 3) + 1]
        neighbour_row == (row + delta_row) % h
        neighbour_col == (column + delta_col) % w
    IN  IF delta_row = 0 /\ delta_col = 0
        THEN 0
        ELSE AsU8(cs[get_index(w, neighbour_row, neighbour_col)])

RECURSIVE CountLoop(_, _, _, _, _, _)
CountLoop(w, h, cs, row, column, k) ==
    IF k = 9 THEN 0
    ELSE NeighbourTerm(w, h, cs, row, column, k)
         + CountLoop(w, h, cs, row, column, k + 1)

live_neighbour_count(w, h, cs, row, column) ==
    CountLoop(w, h, cs, row, column, 0)

\* the match with a birth on no neighbours
NextCellSpontaneous(cell, n) ==
    IF cell = "Alive" /\ n < 2 THEN "Dead"
    ELSE IF cell = "Alive" /\ n \in {2, 3} THEN "Alive"
    ELSE IF cell = "Alive" /\ n > 3 THEN "Dead"
    ELSE IF cell = "Dead" /\ n \in {0, 3} THEN "Alive"
    ELSE cell

\* the match without the underpopulation arm
NextCellNoUnderpopulation(cell, n) ==
    IF cell = "Alive" /\ n \in {2, 3} THEN "Alive"
    ELSE IF cell = "Alive" /\ n > 3 THEN "Dead"
    ELSE IF cell = "Dead" /\ n = 3 THEN "Alive"
    ELSE cell

\* the match of tick
NextCell(cell, n) ==
    IF cell = "Alive" /\ n < 2 THEN "Dead"
    ELSE IF cell = "Alive" /\ n \in {2, 3} THEN "Alive"
    ELSE IF cell = "Alive" /\ n > 3 THEN "Dead"
    ELSE IF cell = "Dead" /\ n = 3 THEN "Alive"
    ELSE cell

\* one iteration of the loops of tick, in place: the count is read from the
\* buffer that is being written
TickCellInPlace(w, h, cur, next, row, col) ==
    LET idx == get_index(w, row, col)
    IN  [next EXCEPT ![idx] =
            NextCell(next[idx], live_neighbour_count(w, h, next, row, col))]

\* one iteration of the loops of tick: reads self.cells, writes next
TickCell(w, h, cur, next, row, col) ==
    LET idx == get_index(w, row, col)
    IN  [next EXCEPT ![idx] =
            NextCell(cur[idx], live_neighbour_count(w, h, cur, row, col))]

\* iterations k, k+1, ... of `for row in 0..height { for col in 0..width`
RECURSIVE TickLoop(_, _, _, _, _)
TickLoop(w, h, cur, next, k) ==
    IF k = w * h THEN next
    ELSE TickLoop(w, h, cur, TickCell(w, h, cur, next, k \div w, k % w), k + 1)

\* next = self.cells.clone(); the loops; self.cells = next
tick(w, h, cs) == TickLoop(w, h, cs, cs, 0)

\* the indices tick uses to read or write a cell
TickIndices(w, h) ==
    {get_index(w, r, c) : r \in 0 .. (h - 1), c \in 0 .. (w - 1)}
    \cup {get_index(w, (r + dr) % h, (c + dc) % w) :
            r \in 0 .. (h - 1), c \in 0 .. (w - 1),
            dr \in {h - 1, 0, 1}, dc \in {w - 1, 0, 1}}

toggle_cell_sets_alive(w, cs, row, col) ==
    [cs EXCEPT ![get_index(w, row, col)] = "Alive"]

\* Universe::toggle_cell
toggle_cell(w, cs, row, col) ==
    LET idx == get_index(w, row, col)
    IN  [cs EXCEPT ![idx] = IF cs[idx] = "Alive" THEN "Dead" ELSE "Alive"]

\* the indices draw uses to read a cell
DrawIndices(w, h) ==
    {get_index(w, r, c) : r \in 0 .. (h - 1), c \in 0 .. (w - 1)}

\* clear_rect followed by draw: a black square for Alive, white for Dead
draw(w, h, cs) ==
    [i \in 0 .. (w * h - 1) |-> IF cs[i] = "Alive" THEN "black" ELSE "white"]

(***************************************************************************)
(* The pointer handlers.  x, y is the canvas-space point the handler       *)
(* computes from the event and the bounding rectangle.                     *)
(***************************************************************************)
None == "None"

\* (v / cell_size).floor() as u32
ToGrid(v) == AsU32(v \div cell_size)

InBoundsInclusive(w, h, row, col) == row <= h /\ col <= w

\* row < height && col < width
InBounds(w, h, row, col) == row < h /\ col < w

\* if in bounds { cells[get_index(row, col)] = paint_to }
Paint(w, h, cs, x, y, paint_to) ==
    LET col == ToGrid(x)
        row == ToGrid(y)
    IN  IF InBounds(w, h, row, col)
        THEN [cs EXCEPT ![get_index(w, row, col)] = paint_to]
        ELSE cs

\* the indices Paint uses
PaintIndices(w, h, x, y) ==
    IF InBounds(w, h, ToGrid(y), ToGrid(x))
    THEN {get_index(w, ToGrid(y), ToGrid(x))}
    ELSE {}

\* the position is outside the grid: floor(y/cell_size) or floor(x/cell_size)
\* is negative or past the last row / column
OutOfGrid(w, h, x, y) ==
    \/ (y \div cell_size) < 0 \/ (y \div cell_size) >= h
    \/ (x \div cell_size) < 0 \/ (x \div cell_size) >= w

Did(op, ticks, oob, idxs) ==
    [op |-> op, ticks |-> ticks, oob |-> oob,
     idxOk |-> idxs \subseteq DOMAIN cells]

\* the points pointer events are drawn from: one pixel left of (above) the
\* canvas, the first pixel of every column (row), the first pixel past it
Coords(n) == {-1} \cup {k * cell_size : k \in 0 .. n}

\* the points of the page's pointer events: the first pixel of every cell,
\* and one point left of, above, right of and below the grid
Points(w, h) ==
    {<<c * cell_size, r * cell_size>> : c \in 0 .. (w - 1), r \in 0 .. (h - 1)}
    \cup {<<-1, 0>>, <<0, -1>>, <<w * cell_size, 0>>, <<0, h * cell_size>>}
Buttons == 0 .. 2

\* the buttons of the page's pointer events: primary and secondary (the
\* handlers treat every other button as the primary one)
PageButtons == {0, SecondaryButton}

\* canvas.set_pointer_capture(e.pointer_id()) for the pointer of the event
SetCapture(held) == TRUE

\* canvas.release_pointer_capture(e.pointer_id())
ReleaseCapture(held) == FALSE

\* a pointer-down that is ignored while a drag is active
on_pointer_down_when_idle(x, y, button) ==
    LET paint_to == IF button = SecondaryButton THEN "Dead" ELSE "Alive"
    IN  /\ drag_mode' = IF drag_mode = None THEN paint_to ELSE drag_mode
        /\ capture' = SetCapture(capture)
        /\ cells' = IF drag_mode = None
                    THEN Paint(width, height, cells, x, y, paint_to)
                    ELSE cells
        /\ rendered' = None
        /\ last' = Did("down", 0, OutOfGrid(width, height, x, y),
                       PaintIndices(width, height, x, y))
        /\ UNCHANGED <<width, height, running, label, frame_count, pending,
                       failed, input, probe>>

\* a pointer-down that paints Alive whatever the button
on_pointer_down_any_button(x, y, button) ==
    /\ drag_mode' = "Alive"
    /\ capture' = SetCapture(capture)
    /\ cells' = Paint(width, height, cells, x, y, "Alive")
    /\ rendered' = None
    /\ last' = Did("down", 0, OutOfGrid(width, height, x, y),
                   PaintIndices(width, height, x, y))
    /\ UNCHANGED <<width, height, running, label, frame_count, pending,
                   failed, input, probe>>

on_pointer_down(x, y, button) ==
    LET paint_to == IF button = SecondaryButton THEN "Dead" ELSE "Alive"
    IN  /\ drag_mode' = paint_to
        /\ capture' = SetCapture(capture)
        /\ cells' = Paint(width, height, cells, x, y, paint_to)
        /\ rendered' = None
        /\ last' = Did("down", 0, OutOfGrid(width, height, x, y),
                       PaintIndices(width, height, x, y))
        /\ UNCHANGED <<width, height, running, label, frame_count, pending,
                       failed, input, probe>>

\* a pointer-move that paints Alive when no drag is active
on_pointer_move_hover(x, y) ==
    /\ cells' = Paint(width, height, cells, x, y,
                      IF drag_mode # None THEN drag_mode ELSE "Alive")
    /\ rendered' = None
    /\ last' = Did("move", 0, OutOfGrid(width, height, x, y),
                   PaintIndices(width, height, x, y))
    /\ UNCHANGED <<width, height, drag_mode, running, label, frame_count,
                   pending, failed, capture, input, probe>>

on_pointer_move(x, y) ==
    /\ cells' = IF drag_mode # None
                THEN Paint(width, height, cells, x, y, drag_mode)
                ELSE cells
    /\ rendered' = None
    /\ last' = Did("move", 0, OutOfGrid(width, height, x, y),
                   IF drag_mode # None
                   THEN PaintIndices(width, height, x, y) ELSE {})
    /\ UNCHANGED <<width, height, drag_mode, running, label, frame_count,
                   pending, failed, capture, input, probe>>

on_pointer_up ==
    /\ drag_mode' = None
    /\ capture' = ReleaseCapture(capture)
    /\ rendered' = None
    /\ last' = Did("up", 0, FALSE, {})
    /\ UNCHANGED <<width, height, cells, running, label, frame_count,
                   pending, failed, input, probe>>

on_pointer_leave ==
    /\ drag_mode' = None
    /\ rendered' = None
    /\ last' = Did("leave", 0, FALSE, {})
    /\ UNCHANGED <<width, height, cells, running, label, frame_count,
                   pending, failed, capture, input, probe>>

(***************************************************************************)
(* The play/pause button.                                                  *)
(***************************************************************************)
\* a click whose label names the state it left
on_click_stale_label ==
    /\ running' = ~running
    /\ label' = IF running THEN "Pause" ELSE "Play"
    /\ rendered' = None
    /\ last' = Did("click", 0, FALSE, {})
    /\ UNCHANGED <<width, height, cells, drag_mode, frame_count, pending,
                   failed, capture, input, probe>>

\* a click that restarts the frame counter
on_click_resets_counter ==
    /\ running' = ~running
    /\ label' = IF running' THEN "Pause" ELSE "Play"
    /\ frame_count' = 0
    /\ rendered' = None
    /\ last' = Did("click", 0, FALSE, {})
    /\ UNCHANGED <<width, height, cells, drag_mode, pending, failed, capture,
                   input, probe>>

on_click ==
    /\ running' = ~running
    /\ label' = IF running' THEN "Pause" ELSE "Play"
    /\ rendered' = None
    /\ last' = Did("click", 0, FALSE, {})
    /\ UNCHANGED <<width, height, cells, drag_mode, frame_count, pending,
                   failed, capture, input, probe>>

(***************************************************************************)
(* The animation frame closure.  The host takes the one-shot registration  *)
(* and calls the closure; ok tells whether request_animation_frame at the  *)
(* end of the closure succeeds (its Err is unwrapped: the closure panics). *)
(***************************************************************************)
ShouldTickAlways(run, count) == count % Throttle = 0

ShouldTickOffByOne(run, count) == run /\ count % Throttle = 1

\* *running_rc.borrow() && frame_count % 5 == 0
ShouldTick(run, count) == run /\ count % Throttle = 0

\* the tick applied to a copy of the grid taken when the closure was built
FrameTickStaleCopy(w, h, cs, run, count) ==
    IF ShouldTick(run, count) THEN tick(w, h, AllDead(w, h)) ELSE cs

\* if running && frame_count % 5 == 0 { universe.tick() }
FrameTick(w, h, cs, run, count) ==
    IF ShouldTick(run, count) THEN tick(w, h, cs) ELSE cs

\* the number of calls of tick the closure makes
FrameTicks(run, count) == IF ShouldTick(run, count) THEN 1 ELSE 0

RenderBeforeTick(w, h, entry, ticked) == draw(w, h, entry)

\* clear_rect, draw, draw, draw_grid: they read the grid after the tick
\* (entry is the grid the closure was entered with)
Render(w, h, entry, ticked) == draw(w, h, ticked)

RearmTwice(n, ok) == IF ok THEN n + 2 ELSE n

RearmRetry(n, ok) == n + 1

\* window.request_animation_frame(cb).unwrap(): one more registration if ok
Rearm(n, ok) == IF ok THEN n + 1 ELSE n

animation_frame(ok) ==
    /\ pending > 0
    /\ frame_count < MaxFrames
    /\ frame_count' = frame_count + 1
    /\ cells' = FrameTick(width, height, cells, running, frame_count')
    /\ rendered' = Render(width, height, cells, cells')
    /\ pending' = Rearm(pending - 1, ok)
    /\ failed' = (failed \/ ~ok)
    /\ last' = Did("frame", FrameTicks(running, frame_count'), FALSE,
                   DrawIndices(width, height) \cup
                   (IF ShouldTick(running, frame_count')
                    THEN TickIndices(width, height) ELSE {}))
    /\ UNCHANGED <<width, height, drag_mode, running, label, capture, input,
                   probe>>

(***************************************************************************)
(* The program: start() has built the universe, installed the handlers    *)
(* and registered the first animation callback.                            *)
(***************************************************************************)
NoProbe == [row |-> 0, col |-> 0, n |-> 0]

\* no frame has run and no pointer event has been received
NoHist == [frames |-> <<>>, since |-> 0, first |-> 0,
           ev |-> "none", button |-> -1, prev |-> None, cell |-> -1]

Init ==
    /\ width = GridW
    /\ height = GridH
    /\ cells = AllDead(GridW, GridH)
    /\ drag_mode = None
    /\ running = TRUE
    /\ label = "html"
    /\ frame_count = 0
    /\ pending = 1
    /\ failed = FALSE
    /\ rendered = None
    /\ capture = FALSE
    /\ last = [op |-> "start", ticks |-> 0, oob |-> FALSE, idxOk |-> TRUE]
    /\ input = <<>>
    /\ probe = NoProbe
    /\ hist = NoHist

PointerDown ==
    \E p \in Points(width, height), b \in PageButtons :
        on_pointer_down(p[1], p[2], b)

PointerMove ==
    \E p \in Points(width, height) : on_pointer_move(p[1], p[2])

AnimationFrame == \E ok \in BOOLEAN : animation_frame(ok)

Next ==
    \/ PointerDown /\ UNCHANGED hist
    \/ PointerMove /\ UNCHANGED hist
    \/ on_pointer_up /\ UNCHANGED hist
    \/ on_pointer_leave /\ UNCHANGED hist
    \/ on_click /\ UNCHANGED hist
    \/ AnimationFrame /\ UNCHANGED hist

Spec == Init /\ [][Next]_vars

(***************************************************************************)
(* The pure functions of Universe applied to bounded grids: every grid of  *)
(* at most MaxW x MaxH cells, and the 5 x 5 grids whose live cells lie in  *)
(* the 3 x 3 block centred at (2, 2).                                      *)
(***************************************************************************)
BlockCells == {get_index(5, r, c) : r \in 1 .. 3, c \in 1 .. 3}

Block5 == [i \in 0 .. (5 * 5 - 1) |-> IF i \in BlockCells THEN "Alive" ELSE "Dead"]

InitPure ==
    /\ \/ /\ width \in 1 .. MaxW
          /\ height \in 1 .. MaxH
          /\ cells \in Grids(width, height)
       \/ /\ width = 5
          /\ height = 5
          /\ cells \in {[i \in 0 .. (5 * 5 - 1) |->
                            IF i \in s THEN "Alive" ELSE "Dead"] :
                         s \in SUBSET BlockCells}
    /\ input = cells
    /\ drag_mode = None
    /\ running = TRUE
    /\ label = "html"
    /\ frame_count = 0
    /\ pending = 1
    /\ failed = FALSE
    /\ rendered = None
    /\ capture = FALSE
    /\ last = [op |-> "grid", ticks |-> 0, oob |-> FALSE, idxOk |-> TRUE]
    /\ probe = NoProbe
    /\ hist = NoHist

PureTick ==
    /\ last.op = "grid"
    /\ cells' = tick(width, height, cells)
    /\ last' = Did("tick", 1, FALSE, TickIndices(width, height))
    /\ UNCHANGED <<width, height, drag_mode, running, label, frame_count,
                   pending, failed, rendered, capture, input, probe, hist>>

PureCount ==
    \E row \in 0 .. (height - 1), col \in 0 .. (width - 1) :
        /\ last.op = "grid"
        /\ probe' = [row |-> row, col |-> col,
                     n |-> live_neighbour_count(width, height, cells, row, col)]
        /\ last' = Did("count", 0, FALSE, {})
        /\ UNCHANGED <<width, height, cells, drag_mode, running, label,
                       frame_count, pending, failed, rendered, capture,
                       input, hist>>

NextPure == PureTick \/ PureCount

SpecPure == InitPure /\ [][NextPure]_vars

(***************************************************************************)
(* toggle_cell applied to the same grids, once and then once more to the   *)
(* same cell.                                                              *)
(***************************************************************************)
PureToggle ==
    \E row \in 0 .. (height - 1), col \in 0 .. (width - 1) :
        /\ last.op = "grid"
        /\ cells' = toggle_cell(width, cells, row, col)
        /\ probe' = [row |-> row, col |-> col, n |-> 0]
        /\ last' = Did("toggle", 0, FALSE, {get_index(width, row, col)})
        /\ UNCHANGED <<width, height, drag_mode, running, label, frame_count,
                       pending, failed, rendered, capture, input, hist>>

PureToggleAgain ==
    /\ last.op = "toggle"
    /\ cells' = toggle_cell(width, cells, probe.row, probe.col)
    /\ last' = Did("toggle2", 0, FALSE,
                   {get_index(width, probe.row, probe.col)})
    /\ UNCHANGED <<width, height, drag_mode, running, label, frame_count,
                   pending, failed, rendered, capture, input, probe, hist>>

NextToggle == PureToggle \/ PureToggleAgain

SpecToggle == InitPure /\ [][NextToggle]_vars

(***************************************************************************)
(* The animation loop and the play/pause button with the history of the    *)
(* frames: the run flag and the number of ticks of each of the last        *)
(* Throttle frames, the number of frames since the last click (or since    *)
(* start) and which of them was the first to tick.  The pointer moves but  *)
(* is never pressed.                                                       *)
(***************************************************************************)
LastFrames(q) == IF Len(q) > Throttle THEN Tail(q) ELSE q

TrackedFrame ==
    /\ AnimationFrame
    /\ hist' = [hist EXCEPT
                  !.frames = LastFrames(Append(@, [run |-> running,
                                                   ticks |-> last'.ticks])),
                  !.since = @ + 1,
                  !.first = IF @ = 0 /\ last'.ticks > 0
                            THEN hist.since + 1 ELSE @]

TrackedClick ==
    /\ on_click
    /\ hist' = [hist EXCEPT !.since = 0, !.first = 0]

NextFrames ==
    \/ TrackedFrame
    \/ TrackedClick
    \/ PointerMove /\ UNCHANGED hist
    \/ on_pointer_up /\ UNCHANGED hist
    \/ on_pointer_leave /\ UNCHANGED hist

SpecFrames == Init /\ [][NextFrames]_vars

(***************************************************************************)
(* The pointer handlers alone, at every pair of coordinates, with the      *)
(* history of the pointer events: the most recent of down / up / leave,    *)
(* the button of that down, the drag state it was received in and the cell *)
(* its position maps to (-1: none).                                        *)
(***************************************************************************)
TrackedDown ==
    \E x \in Coords(width), y \in Coords(height), b \in Buttons :
        /\ on_pointer_down(x, y, b)
        /\ hist' = [hist EXCEPT
                      !.ev = "down",
                      !.button = b,
                      !.prev = drag_mode,
                      !.cell = IF OutOfGrid(width, height, x, y) THEN -1
                               ELSE (y \div cell_size) * width
                                    + (x \div cell_size)]

TrackedMove ==
    \E x \in Coords(width), y \in Coords(height) :
        /\ on_pointer_move(x, y)
        /\ hist' = [hist EXCEPT !.prev = None, !.cell = -1]

TrackedUp ==
    /\ on_pointer_up
    /\ hist' = [hist EXCEPT !.ev = "up", !.button = -1, !.prev = drag_mode,
                            !.cell = -1]

TrackedLeave ==
    /\ on_pointer_leave
    /\ hist' = [hist EXCEPT !.ev = "leave", !.button = -1,
                            !.prev = drag_mode, !.cell = -1]

NextPointer == TrackedDown \/ TrackedMove \/ TrackedUp \/ TrackedLeave

SpecPointer == Init /\ [][NextPointer]_vars

(***************************************************************************)
(* Properties.                                                             *)
(***************************************************************************)
Positions(w, h) == (0 .. (h - 1)) \X (0 .. (w - 1))

\* C1: one tick sets every cell to the Game-of-Life result of the cell's own
\* pre-tick state and its neighbour count in the pre-tick grid: Alive with
\* fewer than 2 or more than 3 live neighbours becomes Dead, Alive with 2 or
\* 3 stays Alive, Dead with exactly 3 becomes Alive, any other cell keeps its
\* state; nothing written during the tick is read.
C1_TickFromPreTickGrid ==
    last.op = "tick" =>
        /\ DOMAIN cells = DOMAIN input
        /\ \A p \in Positions(width, height) :
            LET idx == p[1] * width + p[2]
                old == input[idx]
                n == live_neighbour_count(width, height, input, p[1], p[2])
            IN  cells[idx] =
                    CASE old = "Alive" /\ (n < 2 \/ n > 3) -> "Dead"
                      [] old = "Alive" /\ n \in {2, 3} -> "Alive"
                      [] old = "Dead" /\ n = 3 -> "Alive"
                      [] OTHER -> old

\* a tick in which one cell was born and another died
C1_Witness ==
    /\ last.op = "tick"
    /\ \E i \in DOMAIN cells : input[i] = "Dead" /\ cells[i] = "Alive"
    /\ \E i \in DOMAIN cells : input[i] = "Alive" /\ cells[i] = "Dead"

\* the number of the 8 offset pairs (dr, dc) of {0,1,2} x {0,1,2} other than
\* (1,1) whose cell ((row + h - 1 + dr) mod h, (col + w - 1 + dc) mod w) is
\* Alive
WrappedCount(w, h, cs, row, col) ==
    Cardinality({d \in ((0 .. 2) \X (0 .. 2)) \ {<<1, 1>>} :
        cs[((row + h - 1 + d[1]) % h) * w + ((col + w - 1 + d[2]) % w)]
            = "Alive"})

\* C2: for every grid with width >= 1 and height >= 1, width or height 1
\* included, live_neighbour_count(row, col) is the number of Alive cells over
\* the 8 wrapped offset pairs; in a 1 x 1 grid it is 8 times the cell's state.
C2_CountIsEightWrappedOffsets ==
    last.op = "count" =>
        probe.n = WrappedCount(width, height, input, probe.row, probe.col)

\* C3: width and height keep their construction values, the buffer has
\* width * height cells, and every index a handler used to read or write a
\* cell is below that length.
C3_DimensionsAndIndices ==
    /\ width = GridW
    /\ height = GridH
    /\ DOMAIN cells = 0 .. (width * height - 1)
    /\ last.idxOk

\* a tick has run on a grid that pointer events painted, and a pointer-down
\* has painted a cell since
C3_Witness ==
    /\ last.op = "down"
    /\ ~last.oob
    /\ frame_count >= Throttle
    /\ \E i \in DOMAIN cells : cells[i] = "Alive"

Corners5 == {get_index(5, 1, 1), get_index(5, 1, 3),
             get_index(5, 3, 1), get_index(5, 3, 3)}

\* C4 as claimed: on the 5 x 5 grid whose live cells are the 3 x 3 block
\* centred at (2,2), one tick makes the four corners of the block Dead.
C4_BlockCornersDie ==
    (last.op = "tick" /\ input = Block5) =>
        \A i \in Corners5 : cells[i] = "Dead"

\* C4 as amended: on that grid one tick leaves the four corners of the block
\* Alive (each has exactly 3 live neighbours).
C4_BlockCornersSurvive ==
    (last.op = "tick" /\ input = Block5) =>
        \A i \in Corners5 : cells[i] = "Alive"

\* the tick of the 5 x 5 block grid
C4_Witness == last.op = "tick" /\ input = Block5 /\ width = 5 /\ height = 5

\* C5: a pointer-down, or a pointer-move received while painting, whose
\* position is out of the grid (negative, or past the last row or column)
\* writes no cell.
C5_OutOfGridPointerIgnored ==
    [][((last'.op = "down" \/ (last'.op = "move" /\ drag_mode # None))
            /\ last'.oob)
        => cells' = cells]_vars

\* C6: while the run flag is false an animation frame leaves every cell
\* unchanged, whatever the frame counter; only pointer-down and pointer-move
\* change the grid while paused.
C6_PausedFramesKeepGrid ==
    [][~running =>
        /\ AnimationFrame => cells' = cells
        /\ cells' # cells => last'.op \in {"down", "move"}]_vars

\* a paused frame whose counter is a multiple of the divisor, on a grid a
\* tick would change
C6_Witness ==
    /\ last.op = "frame"
    /\ ~running
    /\ frame_count = Throttle
    /\ tick(width, height, cells) # cells

\* C7: an animation frame increments the frame counter by one and calls tick
\* exactly once if the run flag is true and the incremented counter is a
\* multiple of 5, and not at all otherwise.
C7_FrameTicksOnFifth ==
    [][AnimationFrame =>
        /\ frame_count' = frame_count + 1
        /\ IF running /\ frame_count' % 5 = 0
           THEN last'.ticks = 1 /\ cells' = tick(width, height, cells)
           ELSE last'.ticks = 0 /\ cells' = cells]_vars

\* the fifth frame, running: it ticked
C7_Witness ==
    /\ last.op = "frame"
    /\ running
    /\ frame_count = 5
    /\ last.ticks = 1

\* C8: every animation frame, ticking or not, running or paused, clears and
\* redraws the canvas from the grid as it is after the frame's tick: black
\* for every Alive cell, painted ones included, white for every Dead one.
C8_FrameDrawsCurrentGrid ==
    last.op = "frame" =>
        rendered = [i \in DOMAIN cells |->
                        IF cells[i] = "Alive" THEN "black" ELSE "white"]

\* a paused frame that shows a cell painted by a pointer event
C8_Witness ==
    /\ last.op = "frame"
    /\ ~running
    /\ last.ticks = 0
    /\ \E i \in DOMAIN cells : cells[i] = "Alive" /\ rendered[i] = "black"

\* C9: as long as no registration has failed, exactly one animation callback
\* is registered between handlers, paused or not.
C9_OneCallbackPending == ~failed => pending = 1

\* several frames have run while paused and the callback is registered
C9_Witness ==
    /\ last.op = "frame"
    /\ ~running
    /\ ~failed
    /\ frame_count > 2
    /\ pending = 1

\* C10: the frame whose registration fails leaves the grid as the complete
\* result of its tick (or untouched if it did not tick) and no callback
\* registered; after the failure no frame runs, no tick is applied and
\* nothing registers a callback again.
C10_FailureHaltsLoop ==
    [][/\ (~failed /\ failed') =>
            /\ pending' = 0
            /\ cells' = IF running /\ (frame_count + 1) % 5 = 0
                        THEN tick(width, height, cells) ELSE cells
       /\ failed =>
            /\ failed'
            /\ pending' = 0
            /\ frame_count' = frame_count
            /\ last'.op # "frame"
            /\ last'.ticks = 0]_vars

\* the fifth frame failed to register, and a pointer-down was handled after
C10_Witness ==
    /\ failed
    /\ pending = 0
    /\ frame_count = Throttle
    /\ last.op = "down"

PaintValue(b) == IF b = 2 THEN "Dead" ELSE "Alive"

\* the cell a canvas point inside the grid maps to, with cells of 8 pixels
MappedCell(w, x, y) == (y \div 8) * w + (x \div 8)

\* C11: a pointer-down received while Idle makes the state Painting(value),
\* value Dead for button 2 and Alive for any other button, also when the
\* position is out of the grid; it acquires pointer capture; a position in
\* the grid has exactly its cell set to value, and point (0,0) is cell (0,0).
C11_DownFromIdle ==
    [][\A x \in Coords(width), y \in Coords(height), b \in Buttons :
        (drag_mode = None /\ on_pointer_down(x, y, b)) =>
            /\ drag_mode' = PaintValue(b)
            /\ capture'
            /\ ~OutOfGrid(width, height, x, y) =>
                  cells' = [cells EXCEPT ![MappedCell(width, x, y)] =
                                            PaintValue(b)]
            /\ (x = 0 /\ y = 0) => cells'[0] = PaintValue(b)]_vars

\* a secondary-button down received while Idle erased a cell of the grid
C11_Witness ==
    /\ last.op = "down"
    /\ hist.prev = None
    /\ hist.button = 2
    /\ hist.cell >= 0
    /\ drag_mode = "Dead"
    /\ capture
    /\ \E i \in DOMAIN cells : cells[i] = "Alive"

\* C12: a pointer-move received while Idle changes no cell, nor the drag
\* state, nor the run flag; received while Painting(value) at a position in
\* the grid it sets that cell to value and no other cell.
C12_MoveIdleNoOpPaintingPaints ==
    [][\A x \in Coords(width), y \in Coords(height) :
        on_pointer_move(x, y) =>
            /\ drag_mode' = drag_mode
            /\ running' = running
            /\ drag_mode = None => cells' = cells
            /\ (drag_mode # None /\ ~OutOfGrid(width, height, x, y)) =>
                  cells' = [cells EXCEPT ![MappedCell(width, x, y)] =
                                            drag_mode]]_vars

\* a move during an Alive drag, in the grid, after which two cells are Alive
C12_Witness ==
    /\ last.op = "move"
    /\ ~last.oob
    /\ drag_mode = "Alive"
    /\ hist.ev = "down"
    /\ Cardinality({i \in DOMAIN cells : cells[i] = "Alive"}) >= 2

\* C13: a pointer-up and a pointer-leave received while Painting both leave
\* the state Idle and no pointer capture held.
C13_UpAndLeaveRelease ==
    (last.op \in {"up", "leave"} /\ hist.prev # None) =>
        (drag_mode = None /\ ~capture)

\* C14: a click negates the run flag and sets the label to "Pause" when the
\* new flag is true and to "Play" when it is false; it changes neither the
\* grid, the drag state nor the frame counter; no other handler changes the
\* flag or the label, so once set the label matches the flag.
C14_ToggleFlagAndLabel ==
    [][/\ on_click =>
            /\ running' = ~running
            /\ label' = IF running' THEN "Pause" ELSE "Play"
            /\ UNCHANGED <<cells, drag_mode, frame_count>>
       /\ last'.op # "click" => UNCHANGED <<running, label>>
       /\ label' \in {"Pause", "Play"} => (label' = "Pause" <=> running')]_vars

\* a click paused the loop during a drag over a painted grid
C14_Witness ==
    /\ last.op = "click"
    /\ ~running
    /\ label = "Play"
    /\ drag_mode # None
    /\ frame_count > 0
    /\ \E i \in DOMAIN cells : cells[i] = "Alive"

\* C15: tick of an all-Dead grid is all-Dead: from the all-Dead initial grid
\* the grid stays all-Dead through the frames, running or paused, while no
\* pointer event paints a cell.
C15_AllDeadStaysDead == \A i \in DOMAIN cells : cells[i] = "Dead"

\* a frame has ticked the all-Dead grid after a pause and a resume
C15_Witness ==
    /\ last.op = "frame"
    /\ last.ticks = 1
    /\ label = "Pause"
    /\ \A i \in DOMAIN cells : cells[i] = "Dead"

\* tick of an all-Dead grid of any of the bounded sizes is all-Dead
C15_AllDeadTick ==
    (last.op = "tick" /\ \A i \in DOMAIN input : input[i] = "Dead") =>
        \A i \in DOMAIN cells : cells[i] = "Dead"

\* C16: in a grid of width >= 2 and height >= 2 with exactly one Alive cell,
\* that cell has no live neighbour (no wrapped neighbour is the cell itself)
\* and is Dead after one tick, wherever it is.
C16_LoneCellDies ==
    (/\ last.op = "tick"
     /\ width >= 2
     /\ height >= 2
     /\ Cardinality({i \in DOMAIN input : input[i] = "Alive"}) = 1) =>
        \A p \in Positions(width, height) :
            input[p[1] * width + p[2]] = "Alive" =>
                /\ live_neighbour_count(width, height, input, p[1], p[2]) = 0
                /\ cells[p[1] * width + p[2]] = "Dead"

\* the tick of a 2-wide grid with one Alive cell
C16_Witness ==
    /\ last.op = "tick"
    /\ width = 2
    /\ height >= 2
    /\ Cardinality({i \in DOMAIN input : input[i] = "Alive"}) = 1
    /\ \A i \in DOMAIN cells : cells[i] = "Dead"

\* C17: toggle_cell(row, col) flips exactly the cell (row, col) and leaves
\* every other cell unchanged; applied twice to the same cell it restores
\* the grid.
C17_ToggleFlipsOneCell ==
    LET idx == probe.row * width + probe.col
    IN  /\ last.op = "toggle" =>
            /\ DOMAIN cells = DOMAIN input
            /\ cells[idx] # input[idx]
            /\ cells[idx] \in Cell
            /\ \A j \in DOMAIN input : j # idx => cells[j] = input[j]
        /\ last.op = "toggle2" => cells = input

\* a Dead cell of a grid of several cells was toggled twice
C17_Witness ==
    /\ last.op = "toggle2"
    /\ width * height > 1
    /\ input[probe.row * width + probe.col] = "Dead"
    /\ cells = input

\* C18: tick, paints and render act on the one grid: a frame's tick takes
\* the grid as the handlers before it left it, paints included, as its
\* input, its redraw shows the result, and a paint writes into the grid the
\* last tick produced.
C18_OneSharedGrid ==
    [][/\ last'.op = "frame" =>
            /\ cells' = IF last'.ticks = 1
                        THEN tick(width, height, cells) ELSE cells
            /\ rendered' = [i \in DOMAIN cells' |->
                              IF cells'[i] = "Alive" THEN "black" ELSE "white"]
       /\ last'.op \in {"down", "move"} =>
            \A i \in DOMAIN cells :
                cells'[i] # cells[i] => cells'[i] = drag_mode'
       /\ last'.op \in {"up", "leave", "click"} => cells' = cells]_vars

\* a frame ticked and painted cells survived into the generation it drew
C18_Witness ==
    /\ last.op = "frame"
    /\ last.ticks = 1
    /\ \E i \in DOMAIN cells : cells[i] = "Alive" /\ rendered[i] = "black"

\* the frames of hist.frames that ticked
TickedFrames == {i \in 1 .. Len(hist.frames) : hist.frames[i].ticks > 0}

\* C19: every frame increments the counter, paused or not, and a click
\* leaves it alone; of 5 consecutive frames with the run flag true exactly
\* one ticks; the first tick after a resume (or start) is at the first frame
\* whose cumulative count is a multiple of 5, the 1st to 5th after it.
C19_CounterNeverReset ==
    /\ [](/\ (Len(hist.frames) = 5 /\ \A i \in 1 .. 5 : hist.frames[i].run)
              => Cardinality(TickedFrames) = 1
          /\ hist.first # 0 =>
              /\ hist.first \in 1 .. 5
              /\ hist.first <= hist.since
              /\ (frame_count - hist.since + hist.first) % 5 = 0
              /\ \A k \in 1 .. (hist.first - 1) :
                    (frame_count - hist.since + k) % 5 # 0
          /\ (running /\ hist.since >= 5) => hist.first # 0
          /\ ~running => hist.first = 0)
    /\ [][/\ last'.op = "frame" => frame_count' = frame_count + 1
          /\ last'.op # "frame" => frame_count' = frame_count]_vars

\* five frames in a row found the run flag true, with a pause and a resume
\* after the third: the first tick came 2 frames after the resume
C19_Witness ==
    /\ Len(hist.frames) = 5
    /\ \A i \in 1 .. 5 : hist.frames[i].run
    /\ hist.first = 2
    /\ frame_count = 5

\* C20: the drag state is inactive if the most recent of the down / up /
\* leave events is an up or a leave or there was none, and otherwise is
\* Painting of the value of the most recent pointer-down, whatever state
\* that down was received in; a down in the grid leaves its cell at that
\* value.
C20_DragFollowsLastEvent ==
    /\ hist.ev \in {"none", "up", "leave"} => drag_mode = None
    /\ hist.ev = "down" => drag_mode = PaintValue(hist.button)
    /\ (last.op = "down" /\ hist.cell >= 0) =>
            cells[hist.cell] = PaintValue(hist.button)

\* a secondary-button down received during an Alive drag erased its cell
C20_Witness ==
    /\ last.op = "down"
    /\ hist.prev = "Alive"
    /\ hist.button = 2
    /\ hist.cell >= 0
    /\ drag_mode = "Dead"
    /\ cells[hist.cell] = "Dead"

====
